---- MODULE Spec2Model ----
(***************************************************************************)
(* Recipe review workflow of recipe-app: the Flask handlers of app.py      *)
(* (add_recipe, edit_rejected_recipe, assign_recipe, review_recipe) and    *)
(* the Airtable accesses of airtable_client.py they are built from.        *)
(*                                                                         *)
(* Each handler is a sequence of separate store accesses (one HTTP call to *)
(* Airtable each); the handlers of concurrent requests interleave between  *)
(* those accesses.  One action of the model is one store access together   *)
(* with the handler code that runs up to the next one.                     *)
(***************************************************************************)
EXTENDS Integers, Sequences, FiniteSets

\* ---------------------------------------------------------------- bounds
MaxRecipes == 2     \* records the Recipes table can hold
NumRequests == 2    \* requests that can be in flight at the same time
MaxCount == 2       \* largest value of numApproved / numRejected

\* ------------------------------------------------------------- identities
Users == {"U1", "U2"}          \* record ids of the Users table
Reviewers == {"V1", "V2"}      \* record ids of the Reviewers table
Procs == 1..NumRequests
RecipeIds == 1..MaxRecipes     \* record ids a request URL can name

\* session: the (user, role) pair login() stored, or no login at all
NoSession == [user |-> "", role |-> ""]
Sessions ==
  {[user |-> u, role |-> "user"] : u \in Users}
    \cup {[user |-> v, role |-> "reviewer"] : v \in Reviewers}
    \cup {NoSession}

\* the accounts that post recipes; the other user only tries to edit them
Submitters == {"U1"}
SubmitSessions == {s \in Sessions : s.role = "user" => s.user \in Submitters}

\* -------------------------------------------------------------- form data
\* request.form['price'] is a string: a sequence of characters
\* request.method and request.form of a request to add_recipe
SubmitForms ==
  { [method |-> "GET", price |-> <<>>, is_vegan |-> FALSE,
     ingredient_ids |-> <<>>],
    [method |-> "POST", price |-> <<"1", "0">>, is_vegan |-> FALSE,
     ingredient_ids |-> <<"I1">>] }
\* request.method and request.form of a request to edit_rejected_recipe
ResubmitForms ==
  { [method |-> "GET", is_vegan |-> FALSE, ingredient_ids |-> <<>>],
    [method |-> "POST", is_vegan |-> FALSE, ingredient_ids |-> <<"I1">>] }
ReviewActions == {"approve", "reject", "skip"}

Digits == {"0", "1", "2", "3", "4", "5", "6", "7", "8", "9"}

DigitValue(c) ==
  CASE c = "0" -> 0 [] c = "1" -> 1 [] c = "2" -> 2 [] c = "3" -> 3
    [] c = "4" -> 4 [] c = "5" -> 5 [] c = "6" -> 6 [] c = "7" -> 7
    [] c = "8" -> 8 [] c = "9" -> 9

RECURSIVE DigitsValue(_)
DigitsValue(s) ==
  IF s = <<>> THEN 0
  ELSE 10 * DigitsValue(SubSeq(s, 1, Len(s) - 1)) + DigitValue(s[Len(s)])

IsDigits(s) == s # <<>> /\ \A i \in 1..Len(s) : s[i] \in Digits

\* float(price): the number a decimal integer literal denotes; ok = FALSE is
\* the ValueError float() raises on anything else
float(price) ==
  IF price # <<>> /\ price[1] \in {"-", "+"}
  THEN IF IsDigits(Tail(price))
       THEN [ok |-> TRUE,
             value |-> IF price[1] = "-" THEN 0 - DigitsValue(Tail(price))
                       ELSE DigitsValue(Tail(price))]
       ELSE [ok |-> FALSE, value |-> 0]
  ELSE IF IsDigits(price)
       THEN [ok |-> TRUE, value |-> DigitsValue(price)]
       ELSE [ok |-> FALSE, value |-> 0]

\* ------------------------------------------------------------- flash texts
FlashLoginUser == "Please log in as a user."
FlashHasRejected == "You cannot add a new recipe while you have a rejected recipe. Please modify it first."
FlashSubmitted == "Recipe submitted successfully!"
FlashAccessDenied == "Recipe not found or access denied."
FlashResubmitted == "Recipe modified and resubmitted for review."
FlashNotAuthorized == "Not authorized."
FlashInProgress == "You already have a recipe in progress. Please review it first."
FlashAssigned == "Recipe assigned to you."
FlashNotAssigned == "This recipe is not assigned to you."
FlashApproved == "Recipe approved!"
FlashRejected == "Recipe rejected."
NoFlash == ""
ServerError == "500 Internal Server Error"

\* ------------------------------------------------------------------ state
VARIABLES
  table_users,     \* Users table: record id -> [numApproved, numRejected]
  table_recipes,   \* Recipes table: sequence of records, id = position
  proc             \* per request slot: where its handler stands, its locals

vars == <<table_users, table_recipes, proc>>

\* a slot with no request in flight
Idle == [pc |-> "idle"]

\* create_user: the record of a new account
create_user == [numApproved |-> 0, numRejected |-> 0]

\* _process_record(table_recipes.get(recipe_id)); None when the id is unknown
NoRecord == [id |-> 0]
get_recipe_by_id(recipe_id) ==
  IF recipe_id \in 1..Len(table_recipes)
  THEN table_recipes[recipe_id]
  ELSE NoRecord

\* get_recipes_by_user filtering on the reviewer link (the loop of
\* get_recipes_by_reviewer copied without renaming the field)
get_recipes_by_user_reviewer_field(user_id, status) ==
  {i \in 1..Len(table_recipes) :
     /\ table_recipes[i].status = status
     /\ \E k \in 1..Len(table_recipes[i].reviewerID) :
          table_recipes[i].reviewerID[k] = user_id}

\* ids of the recipes with that status whose userID link holds user_id
get_recipes_by_user(user_id, status) ==
  {i \in 1..Len(table_recipes) :
     /\ table_recipes[i].status = status
     /\ \E k \in 1..Len(table_recipes[i].userID) :
          table_recipes[i].userID[k] = user_id}

\* get_recipes_by_reviewer filtering on the owner link (the loop of
\* get_recipes_by_user copied without renaming the field)
get_recipes_by_reviewer_user_field(reviewer_id, status) ==
  {i \in 1..Len(table_recipes) :
     /\ table_recipes[i].status = status
     /\ \E k \in 1..Len(table_recipes[i].userID) :
          table_recipes[i].userID[k] = reviewer_id}

\* ids of the recipes with that status whose reviewerID link holds reviewer_id
get_recipes_by_reviewer(reviewer_id, status) ==
  {i \in 1..Len(table_recipes) :
     /\ table_recipes[i].status = status
     /\ \E k \in 1..Len(table_recipes[i].reviewerID) :
          table_recipes[i].reviewerID[k] = reviewer_id}

\* recipe.get('reviewerID', [''])[0]: Airtable leaves an empty link field out
FirstReviewer(recipe) ==
  IF recipe.reviewerID = <<>> THEN "" ELSE recipe.reviewerID[1]

\* requests between add_recipe's check and their create_recipe
PendingCreates == Cardinality({p \in DOMAIN proc : proc[p].pc = "create_recipe"})

Init ==
  /\ table_users = [u \in Users |-> create_user]
  /\ table_recipes = <<>>
  /\ proc = [p \in Procs |-> Idle]

\* the handler of request p has flashed message and is about to return
Respond(p, message) ==
  proc' = [proc EXCEPT ![p] = [pc |-> "return", flashed |-> message]]

\* the handler of request p goes on to its next store access
Continue(p, locals) ==
  proc' = [proc EXCEPT ![p] = locals]

\* the handler returns its redirect or page: the request is over
return(p) ==
  /\ proc[p].pc = "return"
  /\ proc' = [proc EXCEPT ![p] = Idle]
  /\ UNCHANGED <<table_users, table_recipes>>

\* ------------------------------------------------------------- add_recipe
\* app.py add_recipe up to db.create_recipe
add_recipe(p, sess, form) ==
  /\ proc[p].pc = "idle"
  /\ IF sess.role # "user"
     THEN Respond(p, FlashLoginUser)
     ELSE IF get_recipes_by_user(sess.user, "rejected") # {}
     THEN Respond(p, FlashHasRejected)
     ELSE IF form.method = "POST"
     THEN /\ Len(table_recipes) + PendingCreates < MaxRecipes
          /\ Continue(p, [pc |-> "create_recipe", user_id |-> sess.user,
                          price |-> form.price, is_vegan |-> form.is_vegan,
                          ingredient_ids |-> form.ingredient_ids])
     ELSE Respond(p, NoFlash)
  /\ UNCHANGED <<table_users, table_recipes>>

\* create_recipe with price_3x = price_float * 2 (the line above it copied)
create_recipe_price_3x_copied(p) ==
  /\ proc[p].pc = "create_recipe"
  /\ LET price_float == float(proc[p].price)
     IN IF price_float.ok
        THEN table_recipes' = Append(table_recipes,
               [id |-> Len(table_recipes) + 1,
                userID |-> <<proc[p].user_id>>,
                status |-> "unassigned",
                reviewerID |-> <<>>,
                price |-> price_float.value,
                price_2x |-> price_float.value * 2,
                price_3x |-> price_float.value * 2,
                is_vegan |-> proc[p].is_vegan,
                ingredients |-> proc[p].ingredient_ids])
        ELSE UNCHANGED table_recipes
  /\ Respond(p, FlashSubmitted)
  /\ UNCHANGED table_users

\* airtable_client.py create_recipe, then the rest of add_recipe
create_recipe(p) ==
  /\ proc[p].pc = "create_recipe"
  /\ LET price_float == float(proc[p].price)
     IN IF price_float.ok
        THEN table_recipes' = Append(table_recipes,
               [id |-> Len(table_recipes) + 1,
                userID |-> <<proc[p].user_id>>,
                status |-> "unassigned",
                reviewerID |-> <<>>,
                price |-> price_float.value,
                price_2x |-> price_float.value * 2,
                price_3x |-> price_float.value * 3,
                is_vegan |-> proc[p].is_vegan,
                ingredients |-> proc[p].ingredient_ids])
        ELSE UNCHANGED table_recipes
  /\ Respond(p, FlashSubmitted)
  /\ UNCHANGED table_users

\* --------------------------------------------------- edit_rejected_recipe
\* app.py edit_rejected_recipe up to db.update_rejected_recipe
edit_rejected_recipe(p, sess, recipe_id, form) ==
  /\ proc[p].pc = "idle"
  /\ LET recipe == get_recipe_by_id(recipe_id)
     IN IF sess.role # "user"
        THEN Respond(p, FlashLoginUser)
        ELSE IF \/ recipe = NoRecord
                \/ recipe.status # "rejected"
                \/ recipe.userID[1] # sess.user
        THEN Respond(p, FlashAccessDenied)
        ELSE IF form.method = "POST"
        THEN Continue(p, [pc |-> "update_rejected_recipe",
                          user_id |-> sess.user, recipe_id |-> recipe_id,
                          is_vegan |-> form.is_vegan,
                          ingredient_ids |-> form.ingredient_ids])
        ELSE Respond(p, NoFlash)
  /\ UNCHANGED <<table_users, table_recipes>>

\* update_rejected_recipe calling table_recipes.update(..., replace=True):
\* the number fields it does not name are cleared
update_rejected_recipe_replace(p) ==
  /\ proc[p].pc = "update_rejected_recipe"
  /\ table_recipes' = [table_recipes EXCEPT ![proc[p].recipe_id] =
       [@ EXCEPT !.is_vegan = proc[p].is_vegan,
                 !.ingredients = proc[p].ingredient_ids,
                 !.status = "unassigned",
                 !.reviewerID = <<>>,
                 !.price = 0, !.price_2x = 0, !.price_3x = 0]]
  /\ Respond(p, FlashResubmitted)
  /\ UNCHANGED table_users

\* update_rejected_recipe without "reviewerID": [] among its fields
update_rejected_recipe_keeps_reviewer(p) ==
  /\ proc[p].pc = "update_rejected_recipe"
  /\ table_recipes' = [table_recipes EXCEPT ![proc[p].recipe_id] =
       [@ EXCEPT !.is_vegan = proc[p].is_vegan,
                 !.ingredients = proc[p].ingredient_ids,
                 !.status = "unassigned"]]
  /\ Respond(p, FlashResubmitted)
  /\ UNCHANGED table_users

\* airtable_client.py update_rejected_recipe, then the rest of the handler
update_rejected_recipe(p) ==
  /\ proc[p].pc = "update_rejected_recipe"
  /\ table_recipes' = [table_recipes EXCEPT ![proc[p].recipe_id] =
       [@ EXCEPT !.is_vegan = proc[p].is_vegan,
                 !.ingredients = proc[p].ingredient_ids,
                 !.status = "unassigned",
                 !.reviewerID = <<>>]]
  /\ Respond(p, FlashResubmitted)
  /\ UNCHANGED table_users

\* ---------------------------------------------------------- assign_recipe
\* app.py assign_recipe up to db.assign_recipe_to_reviewer
assign_recipe(p, sess, recipe_id) ==
  /\ proc[p].pc = "idle"
  /\ IF sess.role # "reviewer"
     THEN Respond(p, FlashNotAuthorized)
     ELSE IF get_recipes_by_reviewer(sess.user, "inProgress") # {}
     THEN Respond(p, FlashInProgress)
     ELSE Continue(p, [pc |-> "assign_recipe_to_reviewer",
                       reviewer_id |-> sess.user, recipe_id |-> recipe_id])
  /\ UNCHANGED <<table_users, table_recipes>>

\* airtable_client.py assign_recipe_to_reviewer, then the rest of the handler;
\* table_recipes.update raises on an id the table does not hold
assign_recipe_to_reviewer(p) ==
  /\ proc[p].pc = "assign_recipe_to_reviewer"
  /\ IF proc[p].recipe_id \in 1..Len(table_recipes)
     THEN /\ table_recipes' = [table_recipes EXCEPT ![proc[p].recipe_id] =
               [@ EXCEPT !.status = "inProgress",
                         !.reviewerID = <<proc[p].reviewer_id>>]]
          /\ Respond(p, FlashAssigned)
     ELSE /\ UNCHANGED table_recipes
          /\ Respond(p, ServerError)
  /\ UNCHANGED table_users

\* ---------------------------------------------------------- review_recipe
\* app.py review_recipe up to db.update_recipe_status
review_recipe(p, sess, recipe_id, action) ==
  /\ proc[p].pc = "idle"
  /\ LET recipe == get_recipe_by_id(recipe_id)
         stat == IF action = "approve" THEN "numApproved" ELSE "numRejected"
     IN IF sess.role # "reviewer"
        THEN Respond(p, FlashNotAuthorized)
        ELSE IF recipe = NoRecord \/ FirstReviewer(recipe) # sess.user
        THEN Respond(p, FlashNotAssigned)
        ELSE IF action \in {"approve", "reject"}
        THEN Continue(p, [pc |-> "get_user_by_id",
                    reviewer_id |-> sess.user, recipe_id |-> recipe_id,
                    new_status |-> IF action = "approve" THEN "approved"
                                   ELSE "rejected",
                    user_id |-> recipe.userID[1], stat |-> stat,
                    new_count |-> 0])
        ELSE Respond(p, NoFlash)
  /\ UNCHANGED <<table_users, table_recipes>>

\* update_user_stats with new_count = current_count (the + 1 left out)
get_user_by_id_no_increment(p) ==
  /\ proc[p].pc = "get_user_by_id"
  /\ table_users[proc[p].user_id][proc[p].stat] < MaxCount
  /\ Continue(p, [proc[p] EXCEPT
       !.pc = "table_users_update",
       !.new_count = table_users[proc[p].user_id][proc[p].stat]])
  /\ UNCHANGED <<table_users, table_recipes>>

\* update_user_stats, first half: read the user, compute the new count
\* (a counter that stands at MaxCount is not read: new_count stays in range)
get_user_by_id(p) ==
  /\ proc[p].pc = "get_user_by_id"
  /\ table_users[proc[p].user_id][proc[p].stat] < MaxCount
  /\ Continue(p, [proc[p] EXCEPT
       !.pc = "table_users_update",
       !.new_count = table_users[proc[p].user_id][proc[p].stat] + 1])
  /\ UNCHANGED <<table_users, table_recipes>>

\* update_user_stats, second half: write the new count
update_user_stats(p) ==
  /\ proc[p].pc = "table_users_update"
  /\ table_users' = [table_users EXCEPT
       ![proc[p].user_id][proc[p].stat] = proc[p].new_count]
  /\ Continue(p, [proc[p] EXCEPT !.pc = "table_recipes_update"])
  /\ UNCHANGED table_recipes

\* update_recipe_status, last line: write the status; then the flash
update_recipe_status(p) ==
  /\ proc[p].pc = "table_recipes_update"
  /\ table_recipes' = [table_recipes EXCEPT ![proc[p].recipe_id] =
       [@ EXCEPT !.status = proc[p].new_status]]
  /\ Respond(p, IF proc[p].new_status = "approved" THEN FlashApproved
                ELSE FlashRejected)
  /\ UNCHANGED table_users

\* ------------------------------------------------------------------- Next
Next ==
  \E p \in Procs :
    \/ \E sess \in SubmitSessions, form \in SubmitForms : add_recipe(p, sess, form)
    \/ create_recipe(p)
    \/ \E sess \in Sessions, recipe_id \in RecipeIds, form \in ResubmitForms :
         edit_rejected_recipe(p, sess, recipe_id, form)
    \/ update_rejected_recipe(p)
    \/ \E sess \in Sessions, recipe_id \in RecipeIds :
         assign_recipe(p, sess, recipe_id)
    \/ assign_recipe_to_reviewer(p)
    \/ \E sess \in Sessions, recipe_id \in RecipeIds, action \in ReviewActions :
         review_recipe(p, sess, recipe_id, action)
    \/ get_user_by_id(p)
    \/ update_user_stats(p)
    \/ update_recipe_status(p)
    \/ return(p)

Spec == Init /\ [][Next]_vars

\* -------------------------------------------------------- sequential runs
\* One request at a time: each handler runs to its return before the next
\* request starts.  The forms vary the price string and the edited fields.
SeqProcs == {1}

SeqPrices == { <<"1", "0">>, <<"0">>, <<"-", "5">>, <<"a", "b", "c">> }

SeqSubmitForms ==
  { [method |-> "GET", price |-> <<>>, is_vegan |-> FALSE,
     ingredient_ids |-> <<>>] }
    \cup { [method |-> "POST", price |-> price, is_vegan |-> FALSE,
            ingredient_ids |-> <<"I1">>] : price \in SeqPrices }

SeqResubmitForms ==
  { [method |-> "GET", is_vegan |-> FALSE, ingredient_ids |-> <<>>],
    [method |-> "POST", is_vegan |-> TRUE, ingredient_ids |-> <<"I2">>] }

InitSeq ==
  /\ table_users = [u \in Users |-> create_user]
  /\ table_recipes = <<>>
  /\ proc = [p \in SeqProcs |-> Idle]

NextSeq ==
  \E p \in SeqProcs :
    \/ \E sess \in SubmitSessions, form \in SeqSubmitForms :
         add_recipe(p, sess, form)
    \/ create_recipe(p)
    \/ \E sess \in Sessions, recipe_id \in RecipeIds,
          form \in SeqResubmitForms :
         edit_rejected_recipe(p, sess, recipe_id, form)
    \/ update_rejected_recipe(p)
    \/ \E sess \in Sessions, recipe_id \in RecipeIds :
         assign_recipe(p, sess, recipe_id)
    \/ assign_recipe_to_reviewer(p)
    \/ \E sess \in Sessions, recipe_id \in RecipeIds, action \in ReviewActions :
         review_recipe(p, sess, recipe_id, action)
    \/ get_user_by_id(p)
    \/ update_user_stats(p)
    \/ update_recipe_status(p)
    \/ return(p)

SpecSeq == InitSeq /\ [][NextSeq]_vars

\* ------------------------------------------------------ failing accesses
\* A store access can raise (Airtable unreachable, rate limit, bad request).
\* The helpers that wrap their access in try/except turn the exception into
\* None; everywhere else it leaves the handler, and Flask answers 500.

\* table_recipes.all raises in add_recipe or assign_recipe: 500
table_recipes_all_fails(p) ==
  /\ proc[p].pc = "idle"
  /\ Respond(p, ServerError)
  /\ UNCHANGED <<table_users, table_recipes>>

\* table_recipes.get raises in get_recipe_by_id: None, so the handler of
\* edit_rejected_recipe or review_recipe flashes its refusal
get_recipe_by_id_fails(p, message) ==
  /\ proc[p].pc = "idle"
  /\ Respond(p, message)
  /\ UNCHANGED <<table_users, table_recipes>>

\* table_recipes.create raises in create_recipe: caught, None is returned,
\* and add_recipe flashes its success message all the same
table_recipes_create_fails(p) ==
  /\ proc[p].pc = "create_recipe"
  /\ Respond(p, FlashSubmitted)
  /\ UNCHANGED <<table_users, table_recipes>>

\* table_users.get raises in get_user_by_id: None, update_user_stats returns
\* False without writing, and update_recipe_status goes on to its write
get_user_by_id_fails(p) ==
  /\ proc[p].pc = "get_user_by_id"
  /\ Continue(p, [proc[p] EXCEPT !.pc = "table_recipes_update"])
  /\ UNCHANGED <<table_users, table_recipes>>

\* table_users.update raises in update_user_stats: 500, nothing written
table_users_update_fails(p) ==
  /\ proc[p].pc = "table_users_update"
  /\ Respond(p, ServerError)
  /\ UNCHANGED <<table_users, table_recipes>>

\* table_recipes.update raises in assign_recipe_to_reviewer,
\* update_recipe_status or update_rejected_recipe: 500, the record is as it was
table_recipes_update_fails(p) ==
  /\ proc[p].pc \in {"assign_recipe_to_reviewer", "table_recipes_update",
                     "update_rejected_recipe"}
  /\ Respond(p, ServerError)
  /\ UNCHANGED <<table_users, table_recipes>>

NextFail ==
  \/ NextSeq
  \/ \E p \in SeqProcs :
       \/ table_recipes_all_fails(p)
       \/ \E message \in {FlashAccessDenied, FlashNotAssigned} :
            get_recipe_by_id_fails(p, message)
       \/ table_recipes_create_fails(p)
       \/ get_user_by_id_fails(p)
       \/ table_users_update_fails(p)
       \/ table_recipes_update_fails(p)

SpecFail == InitSeq /\ [][NextFail]_vars

\* ----------------------------------------------------------------- claims
\* request p takes a step
Stepped(p) == proc'[p] # proc[p]

Recipes == 1..Len(table_recipes)

\* the recipes user_id owns that stand in that status, read off the table
OwnedIn(user_id, status) ==
  {i \in Recipes : /\ table_recipes[i].userID = <<user_id>>
                   /\ table_recipes[i].status = status}

\* the recipes linked to reviewer_id that stand in that status
LinkedIn(reviewer_id, status) ==
  {i \in Recipes : /\ table_recipes[i].reviewerID = <<reviewer_id>>
                   /\ table_recipes[i].status = status}

\* C1: in every reachable state each submitter owns at most one recipe whose
\* status is rejected.
C1_AtMostOneRejected ==
  \A u \in Users : Cardinality(OwnedIn(u, "rejected")) <= 1

\* C2: in every reachable state, under every interleaving of the two store
\* accesses of Assign, each reviewer is linked to at most one recipe whose
\* status is inProgress.
C2_AtMostOneInProgress ==
  \A v \in Reviewers : Cardinality(LinkedIn(v, "inProgress")) <= 1

\* C3: a Decide call on a recipe that is already approved or rejected is
\* refused: it never passes its check and goes on to write the counter and
\* the status a second time.
C3_DecideIdempotent ==
  [][\A p \in Procs :
       (proc[p].pc = "idle" /\ proc'[p].pc = "get_user_by_id")
         => table_recipes[proc'[p].recipe_id].status
              \notin {"approved", "rejected"}]_vars

LegalTransitions ==
  { <<"unassigned", "inProgress">>, <<"inProgress", "approved">>,
    <<"inProgress", "rejected">>, <<"rejected", "unassigned">> }

\* C4: every step that changes the status of a recipe changes it along one of
\* the four legal transitions.
C4_OnlyLegalTransitions ==
  [][\A i \in Recipes :
       table_recipes'[i].status # table_recipes[i].status
         => <<table_recipes[i].status, table_recipes'[i].status>>
              \in LegalTransitions]_vars

\* C5: approved is terminal: a recipe that is approved is still approved
\* after every step.
C5_ApprovedIsTerminal ==
  [][\A i \in Recipes :
       table_recipes[i].status = "approved"
         => table_recipes'[i].status = "approved"]_vars

\* C6: the write of an Assign that targets a recipe whose status is not
\* unassigned leaves that recipe's status and reviewer link as they were.
C6_AssignOnlyUnassigned ==
  [][\A p \in Procs :
       ( /\ proc[p].pc = "assign_recipe_to_reviewer"
         /\ Stepped(p)
         /\ proc[p].recipe_id \in Recipes
         /\ table_recipes[proc[p].recipe_id].status # "unassigned" )
         => /\ table_recipes'[proc[p].recipe_id].status
                 = table_recipes[proc[p].recipe_id].status
            /\ table_recipes'[proc[p].recipe_id].reviewerID
                 = table_recipes[proc[p].recipe_id].reviewerID]_vars

\* C7: a write of Decide (to the submitter's counter or to the recipe's
\* status) changes something only if, at the moment of the write, the recipe
\* is inProgress and linked to the acting reviewer.
C7_DecideOnlyByLinkedReviewer ==
  [][\A p \in Procs :
       ( /\ proc[p].pc \in {"table_users_update", "table_recipes_update"}
         /\ Stepped(p)
         /\ ~ ( /\ table_recipes[proc[p].recipe_id].status = "inProgress"
                /\ table_recipes[proc[p].recipe_id].reviewerID
                     = <<proc[p].reviewer_id>> ) )
         => /\ table_users' = table_users
            /\ table_recipes' = table_recipes]_vars

\* C8: a Submit called by a submitter who owns a rejected recipe answers with
\* the conflict message and goes no further: it never reaches create_recipe,
\* and the Recipes table and all counters are the same after it as before.
C8_SubmitRefusedWhileRejected ==
  [][\A p \in Procs :
       /\ \A sess \in Sessions, form \in SubmitForms :
            ( /\ add_recipe(p, sess, form)
              /\ sess.role = "user"
              /\ OwnedIn(sess.user, "rejected") # {} )
              => /\ proc'[p] = [pc |-> "return", flashed |-> FlashHasRejected]
                 /\ table_recipes' = table_recipes
                 /\ table_users' = table_users
       /\ ( /\ proc[p] = [pc |-> "return", flashed |-> FlashHasRejected]
            /\ Stepped(p) )
            => /\ proc'[p] = Idle
               /\ table_recipes' = table_recipes
               /\ table_users' = table_users]_vars

\* a Submit was refused with the conflict message
C8_Witness ==
  \E p \in Procs : proc[p] = [pc |-> "return", flashed |-> FlashHasRejected]

\* C9: the write of a Resubmit lands only on a recipe that is rejected at the
\* moment of the write and that the acting submitter owns, and it leaves the
\* recipe unassigned with an empty reviewer link.
C9_ResubmitOnlyRejected ==
  [][\A p \in Procs :
       (proc[p].pc = "update_rejected_recipe" /\ Stepped(p))
         => /\ table_recipes[proc[p].recipe_id].status = "rejected"
            /\ table_recipes[proc[p].recipe_id].userID = <<proc[p].user_id>>
            /\ table_recipes'[proc[p].recipe_id].status = "unassigned"
            /\ table_recipes'[proc[p].recipe_id].reviewerID = <<>>]_vars

\* request p is inside Decide, on a recipe that is inProgress under the
\* reviewer who issued p
DecidingOwnRecipe(p) ==
  /\ proc[p].pc \in {"get_user_by_id", "table_users_update",
                     "table_recipes_update"}
  /\ table_recipes[proc[p].recipe_id].status = "inProgress"
  /\ table_recipes[proc[p].recipe_id].reviewerID = <<proc[p].reviewer_id>>

\* C10: no update of a counter is lost: when two Decide calls by different
\* reviewers on different recipes of the same submitter overlap, the counter
\* write of each leaves the submitter's counter exactly one above the value
\* stored just before the write, and leaves every other counter alone.
C10_NoLostUpdate ==
  [][\A p, q \in Procs :
       ( /\ p # q
         /\ DecidingOwnRecipe(p) /\ DecidingOwnRecipe(q)
         /\ proc[p].recipe_id # proc[q].recipe_id
         /\ proc[p].reviewer_id # proc[q].reviewer_id
         /\ proc[p].user_id = proc[q].user_id
         /\ proc[p].pc = "table_users_update"
         /\ Stepped(p) )
         => table_users' = [table_users EXCEPT
              ![proc[p].user_id][proc[p].stat] = @ + 1]]_vars

\* C11: Decide leaves no partial outcome when a store access fails: a Decide
\* that comes to its status write has incremented the owner's counter (its
\* new_count is the count it wrote, never the 0 it started with), and its
\* status write takes effect, so that the counter and the status always
\* change together and a retry has nothing to count twice.
C11_DecideAllOrNothing ==
  [][\A p \in DOMAIN proc :
       (proc[p].pc = "table_recipes_update" /\ Stepped(p))
         => /\ proc[p].new_count > 0
            /\ table_recipes'[proc[p].recipe_id].status
                 = proc[p].new_status]_vars

\* C12: in every reachable state each recipe whose status is inProgress,
\* approved or rejected has exactly one linked reviewer.
C12_ReviewedHasReviewer ==
  \A i \in Recipes :
    table_recipes[i].status \in {"inProgress", "approved", "rejected"}
      => Len(table_recipes[i].reviewerID) = 1

\* C13: in every reachable state each recipe whose status is unassigned has
\* no linked reviewer.
C13_UnassignedHasNoReviewer ==
  \A i \in Recipes :
    table_recipes[i].status = "unassigned"
      => table_recipes[i].reviewerID = <<>>

\* a recipe that went through Assign, Decide and Resubmit is unassigned again,
\* and its Resubmit has just answered
C13_Witness ==
  \E p \in DOMAIN proc, i \in Recipes :
    /\ proc[p] = [pc |-> "return", flashed |-> FlashResubmitted]
    /\ table_recipes[i].status = "unassigned"
    /\ table_users[table_recipes[i].userID[1]].numRejected > 0

\* C14: both counters of every submitter are non-negative, and no step makes
\* either of them smaller than it was.
C14_CountersMonotone ==
  [][\A u \in Users :
       /\ table_users'[u].numApproved >= table_users[u].numApproved
       /\ table_users'[u].numRejected >= table_users[u].numRejected
       /\ table_users'[u].numApproved >= 0
       /\ table_users'[u].numRejected >= 0]_vars

\* C15: happy path of a sequential run.  A Submit by a submitter with no
\* rejected recipe goes on to create a recipe, which is unassigned, owned by
\* the submitter and unlinked; an Assign by a reviewer with no inProgress
\* recipe goes on to its write, which sets an unassigned recipe to inProgress
\* linked to that reviewer; a Decide (approve) by the linked reviewer of an
\* inProgress recipe goes on to its writes, which raise the owner's
\* numApproved by exactly one, leave numRejected alone and set the recipe to
\* approved.
C15_HappyPath ==
  [][\A p \in DOMAIN proc :
       /\ \A sess \in Sessions, form \in SeqSubmitForms :
            ( /\ add_recipe(p, sess, form)
              /\ sess.role = "user" /\ form.method = "POST"
              /\ OwnedIn(sess.user, "rejected") = {} )
              => proc'[p].pc = "create_recipe"
       /\ ( /\ proc[p].pc = "create_recipe" /\ Stepped(p)
            /\ proc[p].price = <<"1", "0">> )
            => /\ Len(table_recipes') = Len(table_recipes) + 1
               /\ SubSeq(table_recipes', 1, Len(table_recipes)) = table_recipes
               /\ table_recipes'[Len(table_recipes')].status = "unassigned"
               /\ table_recipes'[Len(table_recipes')].userID
                    = <<proc[p].user_id>>
               /\ table_recipes'[Len(table_recipes')].reviewerID = <<>>
       /\ \A sess \in Sessions, recipe_id \in RecipeIds :
            ( /\ assign_recipe(p, sess, recipe_id)
              /\ sess.role = "reviewer"
              /\ LinkedIn(sess.user, "inProgress") = {} )
              => proc'[p].pc = "assign_recipe_to_reviewer"
       /\ ( /\ proc[p].pc = "assign_recipe_to_reviewer" /\ Stepped(p)
            /\ proc[p].recipe_id \in Recipes
            /\ table_recipes[proc[p].recipe_id].status = "unassigned" )
            => /\ table_recipes'[proc[p].recipe_id].status = "inProgress"
               /\ table_recipes'[proc[p].recipe_id].reviewerID
                    = <<proc[p].reviewer_id>>
       /\ \A sess \in Sessions, recipe_id \in RecipeIds :
            ( /\ review_recipe(p, sess, recipe_id, "approve")
              /\ sess.role = "reviewer"
              /\ recipe_id \in LinkedIn(sess.user, "inProgress") )
              => /\ proc'[p].pc = "get_user_by_id"
                 /\ proc'[p].new_status = "approved"
       /\ ( /\ proc[p].pc = "table_users_update" /\ Stepped(p)
            /\ proc[p].new_status = "approved"
            /\ proc[p].recipe_id
                 \in LinkedIn(proc[p].reviewer_id, "inProgress") )
            => table_users' = [table_users EXCEPT
                 ![table_recipes[proc[p].recipe_id].userID[1]].numApproved
                    = @ + 1]
       /\ ( /\ proc[p].pc = "table_recipes_update" /\ Stepped(p)
            /\ proc[p].new_status = "approved"
            /\ proc[p].recipe_id
                 \in LinkedIn(proc[p].reviewer_id, "inProgress") )
            => /\ table_recipes'[proc[p].recipe_id].status = "approved"
               /\ table_users' = table_users
               /\ proc'[p] = [pc |-> "return", flashed |-> FlashApproved]
    ]_vars

\* the happy path has run: U1's recipe is approved under V1, counted once
C15_Witness ==
  \E p \in DOMAIN proc, i \in Recipes :
    /\ proc[p] = [pc |-> "return", flashed |-> FlashApproved]
    /\ table_recipes[i].status = "approved"
    /\ table_recipes[i].userID = <<"U1">>
    /\ table_recipes[i].reviewerID = <<"V1">>
    /\ table_users["U1"] = [numApproved |-> 1, numRejected |-> 0]

\* C16: a successful Resubmit leaves its submitter with no rejected recipe,
\* so that the Submit that follows it passes the rejected-recipe check and
\* creates a recipe.
C16_SubmitAfterResubmit ==
  [][\A p \in DOMAIN proc :
       (proc[p].pc = "update_rejected_recipe" /\ Stepped(p))
         => \A i \in 1..Len(table_recipes') :
              ~ ( /\ table_recipes'[i].userID = <<proc[p].user_id>>
                  /\ table_recipes'[i].status = "rejected" )]_vars

\* C17: in a sequential run an Assign by a reviewer who already has a recipe
\* inProgress answers with the conflict message and changes nothing: every
\* recipe keeps its status and its reviewer link.
C17_AssignRefusedWhileInProgress ==
  [][\A p \in DOMAIN proc :
       /\ \A sess \in Sessions, recipe_id \in RecipeIds :
            ( /\ assign_recipe(p, sess, recipe_id)
              /\ sess.role = "reviewer"
              /\ LinkedIn(sess.user, "inProgress") # {} )
              => /\ proc'[p] = [pc |-> "return", flashed |-> FlashInProgress]
                 /\ table_recipes' = table_recipes
                 /\ table_users' = table_users
       /\ ( /\ proc[p] = [pc |-> "return", flashed |-> FlashInProgress]
            /\ Stepped(p) )
            => /\ proc'[p] = Idle
               /\ table_recipes' = table_recipes
               /\ table_users' = table_users]_vars

\* Assign(R2, V1) was refused while R1 is inProgress under V1 and R2 is
\* unassigned
C17_Witness ==
  \E p \in DOMAIN proc, i, j \in Recipes :
    /\ proc[p] = [pc |-> "return", flashed |-> FlashInProgress]
    /\ table_recipes[i].status = "inProgress"
    /\ table_recipes[i].reviewerID = <<"V1">>
    /\ table_recipes[j].status = "unassigned"
    /\ table_recipes[j].reviewerID = <<>>

\* the price string denotes a positive number
PositivePrice(price) == float(price).ok /\ float(price).value > 0

\* C18: Submit validates its price: with a price that is not a positive
\* number it creates no recipe and does not report success; it reports
\* success only when it created a recipe.
C18_PriceValidated ==
  [][\A p \in DOMAIN proc :
       (proc[p].pc = "create_recipe" /\ Stepped(p))
         => /\ ~ PositivePrice(proc[p].price)
                 => /\ table_recipes' = table_recipes
                    /\ proc'[p] # [pc |-> "return", flashed |-> FlashSubmitted]
            /\ proc'[p] = [pc |-> "return", flashed |-> FlashSubmitted]
                 => Len(table_recipes') = Len(table_recipes) + 1]_vars

\* C19: after every step, every recipe has price_2x = 2 * price and
\* price_3x = 3 * price, and no step changes the price, price_2x or price_3x
\* of a recipe that exists.
C19_DerivedPrices ==
  [][ /\ \A i \in 1..Len(table_recipes') :
           /\ table_recipes'[i].price_2x = 2 * table_recipes'[i].price
           /\ table_recipes'[i].price_3x = 3 * table_recipes'[i].price
      /\ \A i \in Recipes :
           /\ table_recipes'[i].price = table_recipes[i].price
           /\ table_recipes'[i].price_2x = table_recipes[i].price_2x
           /\ table_recipes'[i].price_3x = table_recipes[i].price_3x ]_vars

\* a recipe of price 10 went through Assign, Decide and Resubmit
C19_Witness ==
  \E i \in Recipes :
    /\ table_recipes[i].price = 10
    /\ table_recipes[i].price_2x = 20
    /\ table_recipes[i].price_3x = 30
    /\ table_recipes[i].is_vegan
    /\ table_recipes[i].status = "unassigned"

\* C20: the write of a Resubmit changes only the vegan flag, the ingredients,
\* the status and the reviewer link of its recipe: counters, the number of
\* recipes, every other recipe, and the recipe's id, owner and price fields
\* stay as they were.
C20_ResubmitFrame ==
  [][\A p \in DOMAIN proc :
       (proc[p].pc = "update_rejected_recipe" /\ Stepped(p))
         => /\ table_users' = table_users
            /\ Len(table_recipes') = Len(table_recipes)
            /\ \A i \in Recipes :
                 IF i = proc[p].recipe_id
                 THEN table_recipes'[i] =
                        [table_recipes[i] EXCEPT
                           !.is_vegan = table_recipes'[i].is_vegan,
                           !.ingredients = table_recipes'[i].ingredients,
                           !.status = table_recipes'[i].status,
                           !.reviewerID = table_recipes'[i].reviewerID]
                 ELSE table_recipes'[i] = table_recipes[i]]_vars

\* a Resubmit has just rewritten the vegan flag and the ingredients of a
\* recipe, next to another recipe
C20_Witness ==
  \E p \in DOMAIN proc, i, j \in Recipes :
    /\ proc[p] = [pc |-> "return", flashed |-> FlashResubmitted]
    /\ i # j
    /\ table_recipes[i].is_vegan
    /\ table_recipes[i].ingredients = <<"I2">>
    /\ table_recipes[i].status = "unassigned"
    /\ table_users[table_recipes[i].userID[1]].numRejected > 0

====
